---- MODULE Spec2Model ----
(***************************************************************************)
(* Model of ironfish-rust/src/proofs/notes/minting_asset.rs:               *)
(* MintAssetParams (the prover-side bundle: new, post,                     *)
(* serialize_signature_fields) and MintAssetProof (the public bundle:      *)
(* read, write, verify_proof, serialize_signature_fields).                 *)
(*                                                                         *)
(* The 255-bit field of bls12_381::Scalar (it is also the base field of    *)
(* jubjub) is scaled down to the prime FieldModulus, and jubjub to the     *)
(* twisted Edwards curve -u^2 + v^2 = 1 + CurveD u^2 v^2 over that field.  *)
(* Encodings keep their real widths and are computed byte by byte.  The    *)
(* groth16 prover and verifier are an oracle: `issued` records, for every  *)
(* proof the prover made from a satisfied circuit, the public inputs that  *)
(* proof is bound to, and the verifier accepts exactly those pairs.        *)
(***************************************************************************)
EXTENDS Integers, Sequences, FiniteSets, TLC

VARIABLES
    built,       \* outcome of MintAssetParams::new: "none", "Ok", "ProofGenerationFailure"
    params,      \* <<>> or <<P>>: the MintAssetParams that new returned
    issued,      \* the proving oracle: {[proof, inputs]} the verifier accepts
    posts,       \* the results of the calls of P.post(), in call order
    sigParams,   \* bytes written by MintAssetParams::serialize_signature_fields
    sigProof,    \* bytes written by MintAssetProof::serialize_signature_fields
    wire,        \* <<>> or <<[bytes, of]>>: bytes written by MintAssetProof::write
    decoded,     \* <<>> or <<[input, kind, field, result]>>: last MintAssetProof::read
    verified     \* <<>> or <<[of, res, assigned, inputs]>>: last verify_proof on a decoded bundle

vars == <<built, params, issued, posts, sigParams, sigProof, wire, decoded, verified>>

----------------------------------------------------------------------------
(* Bounds of the model *)

\* post(&self) may be called this many times on the bundle
MaxPosts == 2
\* commitments, root hash and blinding randomness are drawn from 0..MaxScalarInput
MaxScalarInput == 1
\* bit flips and cuts hit bytes 1..MaxTamperByte and the last byte of a field
MaxTamperByte == 1

----------------------------------------------------------------------------
(* Sizes *)

ScalarLen == 32
PointLen == 32
PlaceholderLen == 12
ASSET_IDENTIFIER_LENGTH == 32
ProofLen == 192
NumPublicInputs == 7
Capacity == 254

FieldModulus == 13
CurveD == 2

----------------------------------------------------------------------------
(* Bytes *)

Zeros(n) == [i \in 1..n |-> 0]

RECURSIVE ShiftBytes(_, _)
\* x shifted right by i bytes
ShiftBytes(x, i) == IF x = 0 \/ i = 0 THEN x ELSE ShiftBytes(x \div 256, i - 1)

\* the n-byte little-endian representation of x
ToLE(x, n) == [i \in 1..n |-> ShiftBytes(x, i - 1) % 256]

\* the index of the most significant byte in which a and b differ, or 0
TopDiff(a, b) ==
    LET diff == {i \in 1..Len(a) : a[i] # b[i]}
    IN  IF diff = {} THEN 0 ELSE CHOOSE i \in diff : \A j \in diff : j <= i

RECURSIVE FromLEAt(_, _, _)
\* the value of the little-endian bytes b[i..top]
FromLEAt(b, i, top) == IF i > top THEN 0 ELSE b[i] + 256 * FromLEAt(b, i + 1, top)

\* the value of the little-endian bytes b, whose zero top bytes add nothing
FromLE(b) == FromLEAt(b, 1, TopDiff(b, Zeros(Len(b))))

\* a < b as little-endian numbers of equal length: the most significant
\* byte that differs decides
LtLE(a, b) ==
    LET top == TopDiff(a, b)
    IN  top # 0 /\ a[top] < b[top]

Pow2(k) == 2 ^ k

BitOf(byte, k) == (byte \div Pow2(k)) % 2

FlipBit(byte, k) == IF BitOf(byte, k) = 1 THEN byte - Pow2(k) ELSE byte + Pow2(k)

\* read_exact replaced by a single read: a short read leaves the zeroed buffer
ReadExactShort(bytes, pos, n) ==
    <<[i \in 1..n |-> IF pos + i - 1 <= Len(bytes) THEN bytes[pos + i - 1] ELSE 0]>>

\* io::Read::read_exact at offset pos: <<the n bytes>>, or <<>> on UnexpectedEof
ReadExact(bytes, pos, n) ==
    IF pos + n - 1 <= Len(bytes) THEN <<SubSeq(bytes, pos, pos + n - 1)>> ELSE <<>>

----------------------------------------------------------------------------
(* Field elements: bls12_381::Scalar *)

Scalars == 0..(FieldModulus - 1)

ModulusBytes == ToLE(FieldModulus, ScalarLen)

\* Scalar::to_bytes: the canonical little-endian encoding
ScalarToBytes(s) == ToLE(s, ScalarLen)

\* Scalar::from_bytes: <<s>>, or <<>> when the bytes are not below the modulus
ScalarFromBytes(b) ==
    IF LtLE(b, ModulusBytes) THEN <<FromLE(b)>> ELSE <<>>

\* serializing::read_scalar: read_exact of one representation, then from_repr
read_scalar(bytes, pos) ==
    LET repr == ReadExact(bytes, pos, ScalarLen)
    IN  IF repr = <<>> THEN <<>> ELSE ScalarFromBytes(repr[1])

----------------------------------------------------------------------------
(* Curve points: jubjub::ExtendedPoint, kept as the affine pair <<u, v>> *)

OnCurve(u, v) ==
    ((v * v - u * u) % FieldModulus) = ((1 + CurveD * u * u * v * v) % FieldModulus)

Curve == {pt \in Scalars \X Scalars : OnCurve(pt[1], pt[2])}

\* ExtendedPoint::to_affine, then get_u / get_v
get_u(pt) == pt[1]
get_v(pt) == pt[2]

\* ExtendedPoint::to_bytes: v little-endian, the parity of u in the top bit
PointToBytes(pt) ==
    LET vb == ScalarToBytes(get_v(pt))
    IN  [vb EXCEPT ![PointLen] = vb[PointLen] + 128 * (get_u(pt) % 2)]

\* ExtendedPoint::from_bytes: <<pt>>, or <<>> when v is not canonical, no u
\* solves the curve equation, or the sign bit is set on u = 0
PointFromBytes(b) ==
    LET sign == b[PointLen] \div 128
        vr   == ScalarFromBytes([b EXCEPT ![PointLen] = b[PointLen] % 128])
    IN  IF vr = <<>> THEN <<>>
        ELSE LET v     == vr[1]
                 roots == {u \in Scalars : OnCurve(u, v)}
             IN  IF roots = {} THEN <<>>
                 ELSE LET u0 == CHOOSE u \in roots : TRUE
                          u  == IF u0 % 2 # sign THEN (FieldModulus - u0) % FieldModulus ELSE u0
                      IN  IF u = 0 /\ sign = 1 THEN <<>> ELSE <<<<u, v>>>>

----------------------------------------------------------------------------
(* Asset types: AssetType wraps its AssetIdentifier *)

MkIdentifier(lo, hi) ==
    [i \in 1..ASSET_IDENTIFIER_LENGTH |->
        IF i = 1 THEN lo ELSE IF i = ASSET_IDENTIFIER_LENGTH THEN hi ELSE 0]

\* the identifiers AssetType::from_identifier recognises
ValidIdentifiers == {MkIdentifier(1, 0), MkIdentifier(3, 0), MkIdentifier(1, 128)}

\* AssetType::get_identifier
get_identifier(asset_type) == asset_type

\* AssetType::from_identifier: <<asset_type>>, or <<>>
from_identifier(bytes) == IF bytes \in ValidIdentifiers THEN <<bytes>> ELSE <<>>

----------------------------------------------------------------------------
(* bellman::gadgets::multipack *)

\* multipack::bytes_to_bits_le: bit k of each byte, least significant first
bytes_to_bits_le(bytes) ==
    [k \in 1..(8 * Len(bytes)) |-> BitOf(bytes[((k - 1) \div 8) + 1], (k - 1) % 8)]

RECURSIVE SumPow2(_, _)
\* the sum of 2^(k - lo) over the positions k in ones
SumPow2(ones, lo) ==
    IF ones = {} THEN 0
    ELSE LET k == CHOOSE x \in ones : TRUE
         IN  Pow2(k - lo) + SumPow2(ones \ {k}, lo)

\* the field element whose little-endian bits are bits[lo..hi]: every set
\* bit k adds 2^(k - lo)
BitsValue(bits, lo, hi) == SumPow2({k \in lo..hi : bits[k] = 1}, lo)

\* multipack::compute_multipacking: one field element per chunk of Capacity bits
compute_multipacking(bits) ==
    LET n      == Len(bits)
        chunks == (n + Capacity - 1) \div Capacity
    IN  [c \in 1..chunks |->
            BitsValue(bits, (c - 1) * Capacity + 1,
                      IF c * Capacity < n THEN c * Capacity ELSE n)]

----------------------------------------------------------------------------
(* groth16::Proof<Bls12> and the proving system *)

\* Proof::write: ProofLen bytes
ProofWrite(proof) == <<proof>> \o Zeros(ProofLen - 1)

\* Proof::read: <<proof>>, or <<>> on UnexpectedEof or malformed group elements
ProofRead(bytes, pos) ==
    LET raw == ReadExact(bytes, pos, ProofLen)
    IN  IF raw = <<>> THEN <<>>
        ELSE IF SubSeq(raw[1], 2, ProofLen) # Zeros(ProofLen - 1) THEN <<>>
        ELSE <<raw[1][1]>>

\* groth16::verify_proof: accepts a proof only with the inputs it is bound to
VerifyOracle(proof, public_inputs) ==
    [proof |-> proof, inputs |-> public_inputs] \in issued

\* the public inputs the MintAsset circuit exposes for a witness
CircuitPublicInputs(asset_info, create_cm, anchor, value_commitment, mint_cm) ==
    LET packed == compute_multipacking(bytes_to_bits_le(asset_info))
    IN  <<packed[1], packed[2], create_cm, anchor,
          get_u(value_commitment), get_v(value_commitment), mint_cm>>

----------------------------------------------------------------------------
(* MintAssetProof *)

PublicFields ==
    {"proof", "create_asset_commitment", "mint_asset_commitment", "encrypted_note",
     "value_commitment", "asset_type", "root_hash"}

\* verify_proof with create_asset_commitment and root_hash in each other's slot
PublicInputAssignmentsSwapped(b) ==
    LET identifier_inputs == compute_multipacking(bytes_to_bits_le(get_identifier(b.asset_type)))
    IN  << <<1, identifier_inputs[1]>>,
           <<2, identifier_inputs[2]>>,
           <<3, b.root_hash>>,
           <<4, b.create_asset_commitment>>,
           <<5, get_u(b.value_commitment)>>,
           <<6, get_v(b.value_commitment)>>,
           <<7, b.mint_asset_commitment>> >>

\* the assignments verify_proof makes to public_inputs, in program order,
\* as <<slot, value>> with slots counted from 1
PublicInputAssignments(b) ==
    LET identifier_bits   == bytes_to_bits_le(get_identifier(b.asset_type))
        identifier_inputs == compute_multipacking(identifier_bits)
    IN  << <<1, identifier_inputs[1]>>,
           <<2, identifier_inputs[2]>>,
           <<3, b.create_asset_commitment>>,
           <<4, b.root_hash>>,
           <<5, get_u(b.value_commitment)>>,
           <<6, get_v(b.value_commitment)>>,
           <<7, b.mint_asset_commitment>> >>

RECURSIVE Assign(_, _, _)
\* vec after the assignments as[i..] have been made
Assign(vec, as, i) ==
    IF i > Len(as) THEN vec
    ELSE Assign([vec EXCEPT ![as[i][1]] = as[i][2]], as, i + 1)

\* the vector verify_proof passes to groth16::verify_proof
PublicInputs(b) ==
    LET as == PublicInputAssignments(b)
    IN  Assign(Zeros(NumPublicInputs), as, 1)

\* the slots of public_inputs verify_proof writes
AssignedSlots(b) ==
    LET as == PublicInputAssignments(b)
    IN  {as[i][1] : i \in 1..Len(as)}

\* verify_proof that drops the result of groth16::verify_proof
VerifyProofIgnoringResult(b) == "Ok"

\* MintAssetProof::verify_proof
verify_proof(b) ==
    IF VerifyOracle(b.proof, PublicInputs(b)) THEN "Ok" ELSE "VerificationFailed"

\* serialize_signature_fields writing the two commitments in the other order
ProofSerializeCommitmentsSwapped(b) ==
    ProofWrite(b.proof)
        \o ScalarToBytes(b.mint_asset_commitment)
        \o ScalarToBytes(b.create_asset_commitment)
        \o PointToBytes(b.value_commitment)
        \o get_identifier(b.asset_type)
        \o b.encrypted_note
        \o ScalarToBytes(b.root_hash)

\* serialize_signature_fields leaving out the reserved placeholder
ProofSerializeWithoutPlaceholder(b) ==
    ProofWrite(b.proof)
        \o ScalarToBytes(b.create_asset_commitment)
        \o ScalarToBytes(b.mint_asset_commitment)
        \o PointToBytes(b.value_commitment)
        \o get_identifier(b.asset_type)
        \o ScalarToBytes(b.root_hash)

\* MintAssetProof::serialize_signature_fields
ProofSerializeSignatureFields(b) ==
    ProofWrite(b.proof)
        \o ScalarToBytes(b.create_asset_commitment)
        \o ScalarToBytes(b.mint_asset_commitment)
        \o PointToBytes(b.value_commitment)
        \o get_identifier(b.asset_type)
        \o b.encrypted_note
        \o ScalarToBytes(b.root_hash)

\* MintAssetProof::write
MintAssetProofWrite(b) == ProofSerializeSignatureFields(b)

ReadErr == [ok |-> FALSE, err |-> "IOError", bundle |-> <<>>]

\* what a caller sees when read panics instead of returning
ReadPanic == [ok |-> FALSE, err |-> "panic", bundle |-> <<>>]

\* CtOption::is_none
is_none(option) == option = <<>>

\* MintAssetProof::read
MintAssetProofRead(bytes) ==
    LET at_create == 1 + ProofLen
        at_mint   == at_create + ScalarLen
        at_value  == at_mint + ScalarLen
        at_asset  == at_value + PointLen
        at_note   == at_asset + ASSET_IDENTIFIER_LENGTH
        at_root   == at_note + PlaceholderLen
        proof     == ProofRead(bytes, 1)
    IN  IF proof = <<>> THEN ReadErr ELSE
        LET create_asset_commitment == read_scalar(bytes, at_create)
        IN  IF create_asset_commitment = <<>> THEN ReadErr ELSE
        LET mint_asset_commitment == read_scalar(bytes, at_mint)
        IN  IF mint_asset_commitment = <<>> THEN ReadErr ELSE
        LET value_bytes == ReadExact(bytes, at_value, PointLen)
        IN  IF value_bytes = <<>> THEN ReadErr ELSE
        LET point == PointFromBytes(value_bytes[1])
        IN  IF is_none(point) THEN ReadErr ELSE
            IF point = <<>> THEN ReadPanic ELSE   \* point.unwrap()
        LET asset_bytes == ReadExact(bytes, at_asset, ASSET_IDENTIFIER_LENGTH)
        IN  IF asset_bytes = <<>> THEN ReadErr ELSE
        LET asset_type == from_identifier(asset_bytes[1])
        IN  IF asset_type = <<>> THEN ReadErr ELSE
        LET encrypted_note == ReadExact(bytes, at_note, PlaceholderLen)
        IN  IF encrypted_note = <<>> THEN ReadErr ELSE
        LET root_hash == read_scalar(bytes, at_root)
        IN  IF root_hash = <<>> THEN ReadErr ELSE
        [ok |-> TRUE, err |-> "",
         bundle |-> << [proof                   |-> proof[1],
                        create_asset_commitment |-> create_asset_commitment[1],
                        mint_asset_commitment   |-> mint_asset_commitment[1],
                        encrypted_note          |-> encrypted_note[1],
                        value_commitment        |-> point[1],
                        asset_type              |-> asset_type[1],
                        root_hash               |-> root_hash[1]] >>]

----------------------------------------------------------------------------
(* MintAssetParams *)

\* serialize_signature_fields writing the placeholder before the asset identifier
ParamsSerializePlaceholderFirst(p) ==
    ProofWrite(p.proof)
        \o ScalarToBytes(p.create_asset_commitment)
        \o ScalarToBytes(p.mint_asset_commitment)
        \o PointToBytes(p.value_commitment)
        \o p.encrypted_note
        \o get_identifier(p.asset_type)
        \o ScalarToBytes(p.root_hash)

\* MintAssetParams::serialize_signature_fields
ParamsSerializeSignatureFields(p) ==
    ProofWrite(p.proof)
        \o ScalarToBytes(p.create_asset_commitment)
        \o ScalarToBytes(p.mint_asset_commitment)
        \o PointToBytes(p.value_commitment)
        \o get_identifier(p.asset_type)
        \o p.encrypted_note
        \o ScalarToBytes(p.root_hash)

\* the MintAssetProof that post builds from self
PostBundle(p) ==
    [proof                   |-> p.proof,
     create_asset_commitment |-> p.create_asset_commitment,
     mint_asset_commitment   |-> p.mint_asset_commitment,
     encrypted_note          |-> Zeros(PlaceholderLen),
     value_commitment        |-> p.value_commitment,
     asset_type              |-> p.asset_type,
     root_hash               |-> p.root_hash]

\* post without the `?` on verify_proof: the bundle is returned whatever it says
PostResultUnchecked(p) ==
    [ok |-> TRUE, err |-> "", bundle |-> <<PostBundle(p)>>]

\* MintAssetParams::post: the bundle, or the error of its verify_proof
PostResult(p) ==
    LET mint_asset_proof == PostBundle(p)
    IN  IF verify_proof(mint_asset_proof) # "Ok"
        THEN [ok |-> FALSE, err |-> "VerificationFailed", bundle |-> <<>>]
        ELSE [ok |-> TRUE, err |-> "", bundle |-> <<mint_asset_proof>>]

\* new storing the witness root as the create-asset commitment
NewParamsRootAsCommitment(mint_proof, asset_info, create_cm, mint_cm, mint_randomness, root, vc) ==
    [proof                       |-> mint_proof,
     _mint_commitment_randomness |-> mint_randomness,
     create_asset_commitment     |-> root,
     mint_asset_commitment       |-> mint_cm,
     encrypted_note              |-> Zeros(PlaceholderLen),
     value_commitment            |-> vc,
     asset_type                  |-> asset_info,
     root_hash                   |-> root]

\* new filling the reserved placeholder with data
NewParamsFilledPlaceholder(mint_proof, asset_info, create_cm, mint_cm, mint_randomness, root, vc) ==
    [proof                       |-> mint_proof,
     _mint_commitment_randomness |-> mint_randomness,
     create_asset_commitment     |-> create_cm,
     mint_asset_commitment       |-> mint_cm,
     encrypted_note              |-> [i \in 1..PlaceholderLen |-> 1],
     value_commitment            |-> vc,
     asset_type                  |-> asset_info,
     root_hash                   |-> root]

\* the MintAssetParams that new builds once the proof exists
NewParams(mint_proof, asset_info, create_cm, mint_cm, mint_randomness, root, vc) ==
    [proof                       |-> mint_proof,
     _mint_commitment_randomness |-> mint_randomness,
     create_asset_commitment     |-> create_cm,
     mint_asset_commitment       |-> mint_cm,
     encrypted_note              |-> Zeros(PlaceholderLen),
     value_commitment            |-> vc,
     asset_type                  |-> asset_info,
     root_hash                   |-> root]

----------------------------------------------------------------------------
(* Inputs *)

ScalarInputs == 0..MaxScalarInput

\* create-asset notes: commitment_point() of each
CreateAssetNotes == {[commitment |-> c] : c \in ScalarInputs}

\* mint-asset notes: asset_info, randomness and commitment_point() of each
MintAssetNotes ==
    {[asset_info |-> id, randomness |-> FieldModulus - 1 - c, commitment |-> c] :
        id \in ValidIdentifiers, c \in ScalarInputs}

\* Merkle witnesses of the create-asset note: root_hash() of each
Witnesses == {[root_hash |-> r] : r \in ScalarInputs}

\* the value commitments new can compute from its random draw
ValueCommitmentInputs == {pt \in Curve : get_u(pt) <= 5 /\ get_v(pt) <= 1}

\* the proof create_random_proof returns
MintProof == 1

\* the encoded fields, in the order of the layout
FieldNames ==
    <<"proof", "create_asset_commitment", "mint_asset_commitment", "value_commitment",
      "asset_type", "encrypted_note", "root_hash">>

FieldLen(f) ==
    CASE f = "proof" -> ProofLen
      [] f = "create_asset_commitment" -> ScalarLen
      [] f = "mint_asset_commitment" -> ScalarLen
      [] f = "value_commitment" -> PointLen
      [] f = "asset_type" -> ASSET_IDENTIFIER_LENGTH
      [] f = "encrypted_note" -> PlaceholderLen
      [] f = "root_hash" -> ScalarLen

RECURSIVE FieldStartAt(_, _)
FieldStartAt(f, i) ==
    IF FieldNames[i] = f THEN 1 ELSE FieldLen(FieldNames[i]) + FieldStartAt(f, i + 1)

\* the offset (from 1) of the first byte of field f
FieldStart(f) == FieldStartAt(f, 1)

EncodedLen == FieldStart("root_hash") + ScalarLen - 1

FieldSet == {FieldNames[i] : i \in 1..Len(FieldNames)}

\* the bytes of field f in an encoding
FieldBytes(bytes, f) == SubSeq(bytes, FieldStart(f), FieldStart(f) + FieldLen(f) - 1)

\* bytes with the bytes of field f replaced
WithField(bytes, f, new) ==
    [i \in 1..Len(bytes) |->
        IF i >= FieldStart(f) /\ i < FieldStart(f) + FieldLen(f)
        THEN new[i - FieldStart(f) + 1] ELSE bytes[i]]

TamperBytes(f) == (1..MaxTamperByte) \cup {FieldLen(f)}

\* what a reader may be handed in place of the written bytes w
WireVariants(w) ==
    {[kind |-> "intact", field |-> "", bytes |-> w]}
    \cup {[kind |-> "flip", field |-> f,
           bytes |-> [w EXCEPT ![FieldStart(f) + i - 1] = FlipBit(@, k)]] :
             f \in FieldSet, i \in 1..MaxTamperByte, k \in 0..7}
    \cup {[kind |-> "flip", field |-> f,
           bytes |-> [w EXCEPT ![FieldStart(f) + FieldLen(f) - 1] = FlipBit(@, k)]] :
             f \in FieldSet, k \in 0..7}
    \cup {[kind |-> "replace", field |-> "root_hash",
           bytes |-> WithField(w, "root_hash", ScalarToBytes(s))] :
             s \in (0..(MaxScalarInput + 1)) \ {FromLE(FieldBytes(w, "root_hash"))}}
    \cup {[kind |-> "truncate", field |-> f,
           bytes |-> SubSeq(w, 1, FieldStart(f) - 1 + j)] :
             f \in FieldSet, j \in 0..MaxTamperByte}

----------------------------------------------------------------------------
(* Operations *)

Init ==
    /\ built = "none"
    /\ params = <<>>
    /\ issued = {}
    /\ posts = <<>>
    /\ sigParams = <<>>
    /\ sigProof = <<>>
    /\ wire = <<>>
    /\ decoded = <<>>
    /\ verified = <<>>

\* MintAssetParams::new.  A behaviour follows one mint (calls share no state),
\* so new runs once.  `proved` is whether create_random_proof
\* returns a proof; `satisfied` is whether the witness satisfies the circuit,
\* so that the proof is valid for the public inputs the circuit derives.
New ==
    /\ built = "none"
    /\ \E create_asset_note \in CreateAssetNotes, mint_asset_note \in MintAssetNotes,
          create_asset_note_witness \in Witnesses, vc \in ValueCommitmentInputs,
          proved \in BOOLEAN, satisfied \in BOOLEAN :
          IF ~proved
          THEN /\ built' = "ProofGenerationFailure"
               /\ UNCHANGED <<params, issued>>
          ELSE /\ built' = "Ok"
               /\ params' = <<NewParams(MintProof, mint_asset_note.asset_info,
                                        create_asset_note.commitment,
                                        mint_asset_note.commitment,
                                        mint_asset_note.randomness,
                                        create_asset_note_witness.root_hash, vc)>>
               /\ issued' =
                    IF satisfied
                    THEN {[proof  |-> MintProof,
                           inputs |-> CircuitPublicInputs(
                                          mint_asset_note.asset_info,
                                          create_asset_note.commitment,
                                          create_asset_note_witness.root_hash,
                                          vc,
                                          mint_asset_note.commitment)]}
                    ELSE {}
    /\ UNCHANGED <<posts, sigParams, sigProof, wire, decoded, verified>>

\* post that uses its bundle up: only the first call finalizes it
PostConsuming ==
    /\ params # <<>>
    /\ Len(posts) < MaxPosts
    /\ posts' = Append(posts,
                       IF posts = <<>> THEN PostResult(params[1])
                       ELSE [ok |-> FALSE, err |-> "VerificationFailed", bundle |-> <<>>])
    /\ UNCHANGED <<built, params, issued, sigParams, sigProof, wire, decoded, verified>>

\* MintAssetParams::post
Post ==
    /\ params # <<>>
    /\ Len(posts) < MaxPosts
    /\ posts' = Append(posts, PostResult(params[1]))
    /\ UNCHANGED <<built, params, issued, sigParams, sigProof, wire, decoded, verified>>

\* the bundles post has returned
Posted == {posts[i].bundle[1] : i \in {j \in 1..Len(posts) : posts[j].ok}}

\* MintAssetParams::serialize_signature_fields into an empty writer
SerializeParams ==
    /\ params # <<>>
    /\ sigParams' = ParamsSerializeSignatureFields(params[1])
    /\ UNCHANGED <<built, params, issued, posts, sigProof, wire, decoded, verified>>

\* MintAssetProof::serialize_signature_fields of a posted bundle
SerializeProof ==
    /\ \E b \in Posted : sigProof' = ProofSerializeSignatureFields(b)
    /\ UNCHANGED <<built, params, issued, posts, sigParams, wire, decoded, verified>>

\* MintAssetProof::write of a posted bundle
WritePosted ==
    /\ \E b \in Posted : wire' = <<[bytes |-> MintAssetProofWrite(b), of |-> b]>>
    /\ UNCHANGED <<built, params, issued, posts, sigParams, sigProof, decoded, verified>>

\* MintAssetProof::write of a decoded bundle
WriteDecoded ==
    /\ decoded # <<>>
    /\ decoded[1].result.ok
    /\ LET b == decoded[1].result.bundle[1]
       IN  wire' = <<[bytes |-> MintAssetProofWrite(b), of |-> b]>>
    /\ UNCHANGED <<built, params, issued, posts, sigParams, sigProof, decoded, verified>>

\* MintAssetProof::read of the input v
ReadFrom(v) ==
    /\ decoded' = <<[input |-> v.bytes, kind |-> v.kind, field |-> v.field,
                     result |-> MintAssetProofRead(v.bytes)]>>
    /\ verified' = <<>>
    /\ UNCHANGED <<built, params, issued, posts, sigParams, sigProof, wire>>

\* MintAssetProof::read of the written bytes, as they arrive at their reader;
\* a behaviour follows one reader, which consumes its input once
ReadWire ==
    /\ wire # <<>>
    /\ decoded = <<>>
    /\ \E v \in WireVariants(wire[1].bytes) : ReadFrom(v)

\* MintAssetProof::read of the written bytes, unchanged
ReadBack ==
    /\ wire # <<>>
    /\ ReadFrom([kind |-> "intact", field |-> "", bytes |-> wire[1].bytes])

\* MintAssetProof::verify_proof of the decoded bundle
VerifyDecoded ==
    /\ decoded # <<>>
    /\ decoded[1].result.ok
    /\ LET b == decoded[1].result.bundle[1]
       IN  verified' = <<[of       |-> b,
                          res      |-> verify_proof(b),
                          inputs   |-> PublicInputs(b),
                          assigned |-> AssignedSlots(b)]>>
    /\ UNCHANGED <<built, params, issued, posts, sigParams, sigProof, wire, decoded>>

\* byte strings a reader may be handed: every field either well formed or not
CodecInputs ==
    LET proofs  == {ProofWrite(MintProof), [ProofWrite(MintProof) EXCEPT ![ProofLen] = 1]}
        scalars == {ScalarToBytes(x) : x \in ScalarInputs} \cup {ModulusBytes}
        points  == {PointToBytes(pt) : pt \in ValueCommitmentInputs}
                     \cup {ModulusBytes, ScalarToBytes(5),
                           [ScalarToBytes(1) EXCEPT ![PointLen] = 128]}
        assets  == ValidIdentifiers \cup {MkIdentifier(2, 0)}
        notes   == {Zeros(PlaceholderLen), [i \in 1..PlaceholderLen |-> i]}
    IN  {pr \o cc \o mc \o vc \o id \o en \o rh :
            pr \in proofs, cc \in scalars, mc \in scalars, vc \in points,
            id \in assets, en \in notes, rh \in scalars}

\* MintAssetProof::read of bytes from anywhere, whole or cut short
ReadBytes ==
    /\ decoded = <<>>
    /\ \E bytes \in CodecInputs :
          \/ ReadFrom([kind |-> "raw", field |-> "", bytes |-> bytes])
          \/ \E f \in FieldSet, j \in 0..MaxTamperByte :
                ReadFrom([kind |-> "truncate", field |-> f,
                          bytes |-> SubSeq(bytes, 1, FieldStart(f) - 1 + j)])

\* the mint path: build, finalize, serialize
Next == New \/ Post \/ SerializeParams \/ SerializeProof \/ WritePosted

Spec == Init /\ [][Next]_vars

\* the mint path followed by a reader of the transmitted bytes
NextWire == New \/ Post \/ WritePosted \/ ReadWire \/ VerifyDecoded

SpecWire == Init /\ [][NextWire]_vars

\* a reader of arbitrary bytes that stores what it decoded and loads it again
NextCodec == ReadBytes \/ WriteDecoded \/ ReadBack

SpecCodec == Init /\ [][NextCodec]_vars

----------------------------------------------------------------------------
(* Properties of the mint path, checked under Spec *)

PostCalls == 1..Len(posts)

VerificationFailure == [ok |-> FALSE, err |-> "VerificationFailed", bundle |-> <<>>]

\* C1: a call of post returns a Public Bundle exactly when verify_proof accepts
\* the bundle built from the Prover Bundle; otherwise it returns
\* VerificationFailed and no bundle; every bundle post returned passes
\* verify_proof.
C1_PostReturnsOnlyVerifiedBundles ==
    \A i \in PostCalls :
        LET built_bundle == PostBundle(params[1])
            accepted     == VerifyOracle(built_bundle.proof, PublicInputs(built_bundle))
        IN  /\ posts[i].ok <=> accepted
            /\ ~accepted => posts[i] = VerificationFailure
            /\ posts[i].ok =>
                 /\ Len(posts[i].bundle) = 1
                 /\ verify_proof(posts[i].bundle[1]) = "Ok"

\* post has run on a bundle whose proof the verifier rejects
C1_Witness ==
    /\ posts # <<>>
    /\ posts[1] = VerificationFailure
    /\ ~VerifyOracle(params[1].proof, PublicInputs(PostBundle(params[1])))

\* C2: when new succeeded on a witness that satisfies the circuit, every post
\* on its bundle succeeds, and the vector verify_proof rebuilds from the
\* stored fields is the vector the proof is bound to.
C2_CorrectWitnessPassesPost ==
    \A i \in PostCalls : \A q \in issued :
        /\ posts[i].ok
        /\ q.proof = posts[i].bundle[1].proof
        /\ q.inputs = PublicInputs(posts[i].bundle[1])

\* post has succeeded on a bundle built from a satisfying witness
C2_Witness ==
    /\ issued # {}
    /\ posts # <<>>
    /\ posts[1].ok
    /\ params[1].create_asset_commitment # params[1].root_hash
    /\ params[1].create_asset_commitment # params[1].mint_asset_commitment

\* C5: for a Prover Bundle on which post succeeded, the bytes written by
\* MintAssetParams::serialize_signature_fields, by
\* MintAssetProof::serialize_signature_fields and by MintAssetProof::write
\* are the same bytes.
C5_SigningAndWireBytesAgree ==
    /\ (sigParams # <<>> /\ sigProof # <<>>) => sigParams = sigProof
    /\ (sigProof # <<>> /\ wire # <<>>) => sigProof = wire[1].bytes
    /\ (sigParams # <<>> /\ wire # <<>>) => sigParams = wire[1].bytes

\* all three serializers have written the bundle
C5_Witness ==
    /\ sigParams # <<>>
    /\ sigProof # <<>>
    /\ wire # <<>>
    /\ \E i \in PostCalls : posts[i].ok

\* C9 as stated: one Prover Bundle yields at most one Public Bundle, because
\* post cannot run on it a second time.
C9_AtMostOnePublicBundle ==
    Cardinality({i \in PostCalls : posts[i].ok}) <= 1

\* C9 as the code has it: post borrows the Prover Bundle and leaves it as it
\* was, so it can run again, and every run on the bundle returns what the
\* first run returned.
C9_PostRepeatsItsResult ==
    \A i \in PostCalls : posts[i] = posts[1]

\* post has returned a Public Bundle twice for the same Prover Bundle
C9_Witness ==
    /\ Len(posts) >= 2
    /\ posts[1].ok
    /\ posts[2].ok

\* C10: the Public Bundle post returns has exactly the public fields, each
\* equal to the Prover Bundle's field of that name, the reserved placeholder
\* included, and not the retained blinding randomness.
C10_PostCopiesPublicFields ==
    \A i \in PostCalls :
        posts[i].ok =>
            LET b == posts[i].bundle[1]
                p == params[1]
            IN  /\ DOMAIN b = PublicFields
                /\ "_mint_commitment_randomness" \notin DOMAIN b
                /\ DOMAIN p = PublicFields \cup {"_mint_commitment_randomness"}
                /\ \A f \in PublicFields : b[f] = p[f]

\* post has returned a bundle for a Prover Bundle that holds randomness
C10_Witness ==
    /\ posts # <<>>
    /\ posts[1].ok
    /\ params[1]._mint_commitment_randomness # 0

----------------------------------------------------------------------------
(* Properties of the reader of transmitted bytes, checked under SpecWire *)

\* C3: verify_proof hands the verifier exactly seven field elements: the two
\* elements the little-endian bits of the asset identifier pack into, then
\* create_asset_commitment, root_hash, the u and v coordinates of
\* value_commitment, and mint_asset_commitment; every slot is written, and
\* the reserved placeholder has no part in the vector.
C3_PublicInputVector ==
    verified # <<>> =>
        LET b      == verified[1].of
            packed == compute_multipacking(bytes_to_bits_le(b.asset_type))
        IN  /\ Len(packed) = 2
            /\ Len(verified[1].inputs) = 7
            /\ verified[1].assigned = 1..7
            /\ verified[1].inputs =
                 <<packed[1], packed[2], b.create_asset_commitment, b.root_hash,
                   b.value_commitment[1], b.value_commitment[2], b.mint_asset_commitment>>

\* verify_proof has run on a bundle whose placeholder is not zero, whose
\* identifier fills both packed elements and whose fields all differ
C3_Witness ==
    /\ verified # <<>>
    /\ verified[1].of.encrypted_note # Zeros(PlaceholderLen)
    /\ verified[1].inputs[2] # 0
    /\ verified[1].inputs[3] # verified[1].inputs[4]
    /\ verified[1].inputs[5] # verified[1].inputs[6]
    /\ verified[1].inputs[3] # verified[1].inputs[7]

TamperedFields ==
    {"create_asset_commitment", "mint_asset_commitment", "value_commitment",
     "asset_type", "root_hash"}

\* the written bytes decode, and the decoded bundle verifies
WireDecodesAndVerifies ==
    /\ wire # <<>>
    /\ LET r == MintAssetProofRead(wire[1].bytes)
       IN  r.ok /\ VerifyOracle(r.bundle[1].proof, PublicInputs(r.bundle[1]))

\* the reader was handed the written bytes with one of the five fields changed
ReadTampered ==
    /\ decoded # <<>>
    /\ decoded[1].kind \in {"flip", "replace"}
    /\ decoded[1].field \in TamperedFields

\* C8: when an encoding decodes and verifies, the same bytes with one bit of
\* one of the five fields flipped, or with root_hash replaced by another
\* scalar, either fail to decode or decode to a bundle verify_proof rejects.
C8_TamperedBytesNeverVerify ==
    (WireDecodesAndVerifies /\ ReadTampered) =>
        \/ decoded[1].result = ReadErr
        \/ /\ verify_proof(decoded[1].result.bundle[1]) = "VerificationFailed"
           /\ verified # <<>> => verified[1].res = "VerificationFailed"

\* a flipped identifier bit gave another recognised identifier, the bytes
\* decoded, and verify_proof rejected the bundle
C8_Witness ==
    /\ WireDecodesAndVerifies
    /\ ReadTampered
    /\ decoded[1].field = "asset_type"
    /\ decoded[1].result.ok
    /\ verified # <<>>
    /\ verified[1].res = "VerificationFailed"

----------------------------------------------------------------------------
(* Properties of the encoding, checked under SpecCodec *)

\* C4: reading the bytes that write produced for a Public Bundle succeeds and
\* returns that bundle, field for field.
C4_ReadInvertsWrite ==
    (wire # <<>> /\ decoded # <<>> /\ decoded[1].kind = "intact") =>
        /\ decoded[1].input = wire[1].bytes
        /\ decoded[1].result.ok
        /\ Len(decoded[1].result.bundle) = 1
        /\ \A f \in PublicFields : decoded[1].result.bundle[1][f] = wire[1].of[f]

\* a bundle with a placeholder that is not zero and two different commitments
\* has been written and read back
C4_Witness ==
    /\ wire # <<>>
    /\ decoded # <<>>
    /\ decoded[1].kind = "intact"
    /\ wire[1].of.encrypted_note # Zeros(PlaceholderLen)
    /\ wire[1].of.create_asset_commitment # wire[1].of.mint_asset_commitment
    /\ wire[1].of.value_commitment[1] % 2 = 1

\* C6: the encoding of a Public Bundle is its proof's serialization, then
\* create_asset_commitment (32 bytes), mint_asset_commitment (32 bytes),
\* value_commitment (32 bytes), the asset identifier
\* (ASSET_IDENTIFIER_LENGTH bytes), the placeholder (12 bytes) and root_hash
\* (32 bytes), and nothing else.
C6_EncodingLayout ==
    wire # <<>> =>
        LET b   == wire[1].of
            e   == wire[1].bytes
            pl  == Len(ProofWrite(b.proof))
            ail == ASSET_IDENTIFIER_LENGTH
        IN  /\ Len(e) = pl + 32 + 32 + 32 + ail + 12 + 32
            /\ SubSeq(e, 1, pl) = ProofWrite(b.proof)
            /\ SubSeq(e, pl + 1, pl + 32) = ScalarToBytes(b.create_asset_commitment)
            /\ SubSeq(e, pl + 33, pl + 64) = ScalarToBytes(b.mint_asset_commitment)
            /\ SubSeq(e, pl + 65, pl + 96) = PointToBytes(b.value_commitment)
            /\ SubSeq(e, pl + 97, pl + 96 + ail) = b.asset_type
            /\ SubSeq(e, pl + 97 + ail, pl + 108 + ail) = b.encrypted_note
            /\ SubSeq(e, pl + 109 + ail, pl + 140 + ail) = ScalarToBytes(b.root_hash)

\* a bundle with a placeholder that is not zero has been written
C6_Witness ==
    /\ wire # <<>>
    /\ wire[1].of.encrypted_note # Zeros(PlaceholderLen)
    /\ wire[1].of.root_hash # 0

\* the encodings of the values each field can hold
WellFormed(f) ==
    CASE f = "proof" -> {ProofWrite(x) : x \in 0..255}
      [] f \in {"create_asset_commitment", "mint_asset_commitment", "root_hash"} ->
            {ScalarToBytes(x) : x \in Scalars}
      [] f = "value_commitment" -> {PointToBytes(pt) : pt \in Curve}
      [] f = "asset_type" -> ValidIdentifiers
      [] f = "encrypted_note" -> {FieldBytes(decoded[1].input, f)}

\* C7: read returns either a complete bundle whose every field is valid, or an
\* error and no bundle; it returns the error whenever the input ends before
\* the last field or any field is not the encoding of a valid value.
C7_ReadIsAllOrNothing ==
    decoded # <<>> =>
        LET in == decoded[1].input
            r  == decoded[1].result
        IN  /\ r.ok \/ r = ReadErr
            /\ r # ReadPanic
            /\ r.ok =>
                 /\ Len(r.bundle) = 1
                 /\ DOMAIN r.bundle[1] = PublicFields
                 /\ r.bundle[1].proof \in 0..255
                 /\ r.bundle[1].create_asset_commitment \in Scalars
                 /\ r.bundle[1].mint_asset_commitment \in Scalars
                 /\ r.bundle[1].root_hash \in Scalars
                 /\ r.bundle[1].value_commitment \in Curve
                 /\ r.bundle[1].asset_type \in ValidIdentifiers
                 /\ Len(r.bundle[1].encrypted_note) = PlaceholderLen
            /\ Len(in) < EncodedLen => ~r.ok
            /\ Len(in) >= EncodedLen =>
                 (r.ok <=> \A f \in FieldSet : FieldBytes(in, f) \in WellFormed(f))

\* read was handed bytes that end inside the value_commitment field
C7_Witness ==
    /\ decoded # <<>>
    /\ decoded[1].kind = "truncate"
    /\ Len(decoded[1].input) >= FieldStart("value_commitment")
    /\ Len(decoded[1].input) < FieldStart("asset_type") - 1
    /\ decoded[1].result = ReadErr

====
